---- MODULE Spec2Model ----
(***************************************************************************)
(* Model of client/src/pages/customers.tsx: the customer list view, its    *)
(* list rendering, the debt indicator of a card and the delete workflow    *)
(* (confirm prompt, DELETE request, mutation callbacks, notifications,     *)
(* cache invalidation, redirect to the login entry point).                 *)
(***************************************************************************)
EXTENDS Integers, Sequences, FiniteSets, TLC

(* ---------------------------------------------------------------------- *)
(* Bounds of the model                                                     *)
(* ---------------------------------------------------------------------- *)
\* longest totalDebt text drawn from DebtAlphabet
MaxLen == 4
\* number of customer records the store may hold
NumCustomers == 2
\* number of delete requests the user may confirm in one behaviour
MaxDeletes == 2

(* ---------------------------------------------------------------------- *)
(* Program constants                                                       *)
(* ---------------------------------------------------------------------- *)
\* the debt limit compared with >= in the card
DebtLimit == 5000
\* delay of the redirect timer, in milliseconds
RedirectDelay == 500

VARIABLES
    \* ---- debt indicator of one card ----
    debt,          \* customer.totalDebt of the card being rendered
    debtView,      \* what the card renders for it
    \* ---- the view and its collaborators ----
    store,         \* records held by the customer data store
    search,        \* useState search text
    cache,         \* query cache, one entry per search text
    pc,            \* position of handleDelete: idle, or blocked in confirm()
    mutation,      \* state of the deleteCustomerMutation observer
    requests,      \* DELETE requests in flight
    nextId,        \* number of mutations started so far
    toasts,        \* the toast() calls of the callback that ran last, in order
    toastCalls,    \* number of toast() calls made so far
    timers,        \* pending setTimeout callbacks, with the mutation of each
    location,      \* window.location.href
    escaped,       \* mutations whose rejection left handleDelete uncaught
    deleted        \* records whose delete succeeded (onSuccess ran)

debtVars == <<debt, debtView>>
viewVars == <<store, search, cache, pc, mutation, requests, nextId, toasts, toastCalls,
              timers, location, escaped, deleted>>
vars == <<debt, debtView, store, search, cache, pc, mutation, requests,
          nextId, toasts, toastCalls, timers, location, escaped, deleted>>

(* ---------------------------------------------------------------------- *)
(* Text                                                                    *)
(* ---------------------------------------------------------------------- *)
\* String.prototype.includes on token sequences: sub occurs contiguously
Includes(text, sub) ==
    \E i \in 0..(Len(text) - Len(sub)) :
        \A j \in 1..Len(sub) : text[i + j] = sub[j]

Digits == {"0", "4", "5", "9"}
DebtAlphabet == Digits \cup {"-", ".", "x"}

DigitValue(c) ==
    CASE c = "0" -> 0 [] c = "4" -> 4 [] c = "5" -> 5 [] c = "9" -> 9

RECURSIVE Pow10(_)
Pow10(k) == IF k = 0 THEN 1 ELSE 10 * Pow10(k - 1)

\* length of the run of digits of s that starts at position i
RECURSIVE DigitRun(_, _)
DigitRun(s, i) ==
    IF i <= Len(s) /\ s[i] \in Digits THEN 1 + DigitRun(s, i + 1) ELSE 0

\* value of the digits s[i..i+n-1] read as a decimal numeral
RECURSIVE DigitsValue(_, _, _)
DigitsValue(s, i, n) ==
    IF n = 0 THEN 0
    ELSE 10 * DigitsValue(s, i, n - 1) + DigitValue(s[i + n - 1])

NaN == [nan |-> TRUE, neg |-> FALSE, m |-> 0, scale |-> 0]

\* parseFloat on a text over DebtAlphabet: optional sign, digits, optional
\* fraction; the longest such prefix is read and the rest ignored; NaN when
\* no digit is read.  The number is neg * m / 10^scale.
parseFloatText(s) ==
    LET neg   == Len(s) >= 1 /\ s[1] = "-"
        start == IF neg THEN 2 ELSE 1
        ni    == DigitRun(s, start)
        dot   == start + ni
        nf    == IF dot <= Len(s) /\ s[dot] = "." THEN DigitRun(s, dot + 1)
                 ELSE 0
    IN  IF ni + nf = 0 THEN NaN
        ELSE [nan   |-> FALSE,
              neg   |-> neg,
              m     |-> DigitsValue(s, start, ni) * Pow10(nf)
                         + DigitsValue(s, dot + 1, nf),
              scale |-> nf]

\* parseFloat of a totalDebt value: a number is converted to text first,
\* which for an integer reads back as the same integer
parseFloat(d) ==
    CASE d.t = "string" -> parseFloatText(d.s)
      [] d.t = "number" -> [nan |-> FALSE, neg |-> d.n < 0,
                            m |-> IF d.n < 0 THEN 0 - d.n ELSE d.n,
                            scale |-> 0]
      [] OTHER -> NaN

\* x > 0 and x >= limit on parsed numbers (both false for NaN)
GreaterThanZero(x) == ~x.nan /\ ~x.neg /\ x.m > 0
AtLeast(x, limit) == ~x.nan /\ ~x.neg /\ x.m >= limit * Pow10(x.scale)

\* JavaScript truthiness of a totalDebt value
Truthy(d) ==
    CASE d.t = "string" -> d.s # <<>>
      [] d.t = "number" -> d.n # 0
      [] OTHER -> FALSE

(* ---------------------------------------------------------------------- *)
(* Debt indicator of a card                                                *)
(* ---------------------------------------------------------------------- *)
NullDebt == [t |-> "null", s |-> <<>>, n |-> 0]
UndefinedDebt == [t |-> "undefined", s |-> <<>>, n |-> 0]
TextDebt(s) == [t |-> "string", s |-> s, n |-> 0]
NumberDebt(n) == [t |-> "number", s |-> <<>>, n |-> n]

TextsUpTo(k) == UNION {[1..n -> DebtAlphabet] : n \in 0..k}

\* the amounts of the concrete scenario and around the limit, as numbers
DebtNumbers == {0 - 1, 0, 1, 120, DebtLimit - 1, DebtLimit, DebtLimit + 1, 5200}

DebtInputs ==
    {NullDebt, UndefinedDebt}
    \cup {TextDebt(s) : s \in TextsUpTo(MaxLen)}
    \cup {TextDebt(<<"4", "9", "9", "9", ".", "9", "9">>),
          TextDebt(<<"5", "0", "0", "0", ".", "0", "0">>),
          TextDebt(<<"-", "5", "0", "0", "0", "0">>)}
    \cup {NumberDebt(n) : n \in DebtNumbers}

\* what React prints of a falsy && chain: the number 0 is printed, while
\* false, null, undefined and the empty text print nothing
Leftover(d) == IF d.t = "number" /\ d.n = 0 THEN "0" ELSE "none"

NoIndicator(d) ==
    [shown |-> FALSE, box |-> "none", icon |-> "none", amount |-> "none",
     overage |-> FALSE, leftover |-> Leftover(d)]

getDebtStatusColor(d) ==
    IF ~Truthy(d) THEN "border-yellow-500 text-yellow-500"
    ELSE IF parseFloat(d).nan THEN "border-yellow-500 text-yellow-500"
    ELSE IF AtLeast(parseFloat(d), DebtLimit) THEN "border-red-500 text-red-500"
    ELSE "border-yellow-500 text-yellow-500"

\* the limit compared with > instead of >=
DebtIndicatorStrict(d) ==
    IF Truthy(d) /\ GreaterThanZero(parseFloat(d))
    THEN [shown   |-> TRUE,
          box     |-> IF AtLeast(parseFloat(d), DebtLimit + 1) THEN "red" ELSE "yellow",
          icon    |-> IF AtLeast(parseFloat(d), DebtLimit + 1) THEN "red" ELSE "yellow",
          amount  |-> IF AtLeast(parseFloat(d), DebtLimit + 1) THEN "red" ELSE "yellow",
          overage |-> AtLeast(parseFloat(d), DebtLimit + 1),
          leftover |-> "none"]
    ELSE NoIndicator(d)

\* {customer.totalDebt && parseFloat(customer.totalDebt) > 0 && (...)}
DebtIndicator(d) ==
    IF Truthy(d) /\ GreaterThanZero(parseFloat(d))
    THEN [shown   |-> TRUE,
          box     |-> IF AtLeast(parseFloat(d), DebtLimit) THEN "red" ELSE "yellow",
          icon    |-> IF AtLeast(parseFloat(d), DebtLimit) THEN "red" ELSE "yellow",
          amount  |-> IF AtLeast(parseFloat(d), DebtLimit) THEN "red" ELSE "yellow",
          overage |-> AtLeast(parseFloat(d), DebtLimit),
          leftover |-> "none"]
    ELSE NoIndicator(d)

Unrendered ==
    [shown |-> FALSE, box |-> "unrendered", icon |-> "unrendered",
     amount |-> "unrendered", overage |-> FALSE, leftover |-> "none"]

(* ---------------------------------------------------------------------- *)
(* Customers, search and the data store                                    *)
(* ---------------------------------------------------------------------- *)
Ids == 1..NumCustomers

\* customer.name; record 2 has no name
Name(id) ==
    CASE id = 1 -> <<"A", "l", "i">>
      [] id = 2 -> <<>>
      [] OTHER  -> <<"S", "a", "r", "a">>

SearchTexts == {<<>>, <<"l">>}

\* GET /api/customers?search=<text>: the records of the store matching it
StoreList(st, text) == {id \in st : Includes(Name(id), text)}

(* ---------------------------------------------------------------------- *)
(* Query cache                                                             *)
(* ---------------------------------------------------------------------- *)
NoReply == [ok |-> FALSE, data |-> {}]

NoEntry ==
    [status |-> "none", hasData |-> FALSE, data |-> {}, invalidated |-> FALSE,
     fetch |-> "idle", reply |-> NoReply]

\* a fetch of the entry is sent
StartFetch(e) ==
    [e EXCEPT !.status = IF e.hasData THEN e.status ELSE "pending",
              !.fetch = "sent", !.reply = NoReply]

\* the observer of useQuery moves to the entry of a search text
Observe(e, refetch) ==
    IF e.status = "none" THEN StartFetch(NoEntry)
    ELSE IF e.fetch # "idle" THEN e
    ELSE IF e.invalidated \/ ~e.hasData \/ refetch THEN StartFetch(e)
    ELSE e

\* queryClient.invalidateQueries({ queryKey: ["/api/customers"] }): every
\* entry is marked, the observed one is fetched again (a fetch in flight is
\* cancelled and sent again once the entry has data; the first fetch of an
\* entry stays in flight)
InvalidateQueries(c, active) ==
    [k \in SearchTexts |->
        IF c[k].status = "none" THEN c[k]
        ELSE IF k # active \/ (c[k].fetch # "idle" /\ ~c[k].hasData)
        THEN [c[k] EXCEPT !.invalidated = TRUE]
        ELSE StartFetch([c[k] EXCEPT !.invalidated = TRUE])]

(* ---------------------------------------------------------------------- *)
(* What the view renders                                                   *)
(* ---------------------------------------------------------------------- *)
Entry == cache[search]
isLoading == Entry.status = "pending" /\ Entry.fetch # "idle"
\* const { data: customers = [] }
customers == IF Entry.hasData THEN Entry.data ELSE {}

\* the empty card drawn whenever customers is empty, loading or not
ListViewNoLoadingCheck(loading, list, text) ==
    [skeletons |-> loading,
     empty     |-> list = {},
     message   |-> IF list # {} THEN "none"
                   ELSE IF text # <<>> THEN "noMatch" ELSE "noCustomersYet",
     create    |-> list = {},
     cards     |-> IF loading THEN {} ELSE list]

\* isLoading ? skeletons : customers.length === 0 ? empty card : cards
ListView(loading, list, text) ==
    IF loading
    THEN [skeletons |-> TRUE, empty |-> FALSE, message |-> "none",
          create |-> FALSE, cards |-> {}]
    ELSE IF list = {}
    THEN [skeletons |-> FALSE, empty |-> TRUE,
          message |-> IF text # <<>> THEN "noMatch" ELSE "noCustomersYet",
          create |-> TRUE, cards |-> {}]
    ELSE [skeletons |-> FALSE, empty |-> FALSE, message |-> "none",
          create |-> FALSE, cards |-> list]

View == ListView(isLoading, customers, search)

\* a delete button disabled only while its own record is being deleted
DeleteDisabledPerRecord(id) ==
    \E r \in requests : r.id = id /\ r.mid = mutation.mid
                        /\ mutation.status = "pending"

\* a delete button that is never disabled
DeleteDisabledNever(id) == FALSE

\* disabled={deleteCustomerMutation.isPending}, the same for every card
DeleteDisabled(id) == mutation.status = "pending"

\* the spinner drawn in place of the trash icon
DeleteBusy(id) == mutation.status = "pending"

(* ---------------------------------------------------------------------- *)
(* The delete mutation                                                     *)
(* ---------------------------------------------------------------------- *)
NoResponse == [status |-> 0, body |-> <<>>]
NoError == [message |-> <<>>, authFailure |-> FALSE]

\* what the store may answer to DELETE /api/customers/{id}
Responses(id, st) ==
    {[status |-> 200, body |-> <<>>],
     [status |-> 401, body |-> <<"Unauthorized">>],
     [status |-> 500, body |-> <<"database", "error">>],
     [status |-> 0,   body |-> <<"Failed", "to", "fetch">>]}
    \cup (IF id \in st THEN {}
          ELSE {[status |-> 404, body |-> <<"Customer", "not", "found">>]})

ResponseOk(resp) == resp.status = 200

StatusText(n) ==
    CASE n = 401 -> "401" [] n = 404 -> "404" [] n = 500 -> "500"
      [] OTHER -> "200"

\* await apiRequest("DELETE", ...): the response, or an error thrown by the
\* helper itself (always when no response arrived, possibly on a non-2xx)
ApiRequest(resp) ==
    IF resp.status = 0
    THEN {[threw |-> TRUE, response |-> resp,
           error |-> [message |-> resp.body, authFailure |-> FALSE]]}
    ELSE {[threw |-> FALSE, response |-> resp,
           error |-> NoError]}
         \cup (IF ResponseOk(resp) THEN {}
               ELSE {[threw |-> TRUE, response |-> resp,
                      error |-> [message |-> <<StatusText(resp.status), ":">>
                                              \o resp.body,
                                 authFailure |-> resp.status = 401]]})

\* isUnauthorizedError(error)
isUnauthorizedError(error) == error.authFailure

\* mutationFn: the result of the request, given what apiRequest did and
\* whether the helper recognises the error built here as unauthorized
mutationFn(api, recognised) ==
    IF api.threw THEN [ok |-> FALSE, error |-> api.error]
    ELSE IF ~ResponseOk(api.response)
    THEN [ok |-> FALSE,
          error |-> [message |-> <<"Failed", "to", "delete", "customer", ":",
                                   StatusText(api.response.status), "-">>
                                  \o api.response.body,
                     authFailure |-> api.response.status = 401 /\ recognised]]
    ELSE [ok |-> TRUE, error |-> NoError]

\* onSuccess that only shows the notification
onSuccessNoInvalidate ==
    [invalidate |-> FALSE, toasts |-> <<"deleted">>, timeouts |-> {}]

onSuccess ==
    [invalidate |-> TRUE, toasts |-> <<"deleted">>, timeouts |-> {}]

\* the two tests of the message in the other order
ErrorTextGenericFirst(error) ==
    IF Includes(error.message, <<"Failed", "to", "delete", "customer">>)
    THEN "databaseError"
    ELSE IF Includes(error.message, <<"not", "found">>) THEN "notFound"
    ELSE "deleteFailed"

\* let errorMessage = ...; if (includes("not found")) ...; else if (...) ...
ErrorText(error) ==
    IF Includes(error.message, <<"not", "found">>) THEN "notFound"
    ELSE IF Includes(error.message, <<"Failed", "to", "delete", "customer">>)
    THEN "databaseError"
    ELSE "deleteFailed"

\* the unauthorized branch without its return
onErrorNoReturn(error) ==
    IF isUnauthorizedError(error)
    THEN [invalidate |-> FALSE,
          toasts |-> <<"unauthorized", ErrorText(error)>>,
          timeouts |-> {[ms |-> RedirectDelay, href |-> "/api/login"]}]
    ELSE [invalidate |-> FALSE, toasts |-> <<ErrorText(error)>>,
          timeouts |-> {}]

\* the redirect timer set for every failure
onErrorAlwaysRedirects(error) ==
    [invalidate |-> FALSE,
     toasts |-> IF isUnauthorizedError(error) THEN <<"unauthorized">>
                ELSE <<ErrorText(error)>>,
     timeouts |-> {[ms |-> RedirectDelay, href |-> "/api/login"]}]

\* the list invalidated on failure as on success
onErrorInvalidates(error) ==
    IF isUnauthorizedError(error)
    THEN [invalidate |-> TRUE, toasts |-> <<"unauthorized">>,
          timeouts |-> {[ms |-> RedirectDelay, href |-> "/api/login"]}]
    ELSE [invalidate |-> TRUE, toasts |-> <<ErrorText(error)>>,
          timeouts |-> {}]

onError(error) ==
    IF isUnauthorizedError(error)
    THEN [invalidate |-> FALSE, toasts |-> <<"unauthorized">>,
          timeouts |-> {[ms |-> RedirectDelay, href |-> "/api/login"]}]
    ELSE [invalidate |-> FALSE, toasts |-> <<ErrorText(error)>>,
          timeouts |-> {}]

\* the request sent whatever confirm() returned
handleDeleteIgnoresAnswer(id, confirmed) == {id}

\* handleDelete after confirm() returned: the ids passed to mutateAsync
handleDelete(id, confirmed) == IF confirmed THEN {id} ELSE {}

\* try { await mutateAsync(id) } catch (error) { console.error(...) }
handleDeleteCatches == TRUE

(* ---------------------------------------------------------------------- *)
(* Initial state                                                           *)
(* ---------------------------------------------------------------------- *)
Idle == [at |-> "idle", id |-> 0, name |-> <<>>, answer |-> FALSE]

NoMutation == [status |-> "idle", mid |-> 0, error |-> NoError]

InitView ==
    /\ store \in {{}, Ids}
    /\ search = <<>>
    /\ cache = [k \in SearchTexts |->
                  IF k = <<>> THEN StartFetch(NoEntry) ELSE NoEntry]
    /\ pc = Idle
    /\ mutation = NoMutation
    /\ requests = {}
    /\ nextId = 0
    /\ toasts = <<>>
    /\ toastCalls = 0
    /\ timers = {}
    /\ location = "/customers"
    /\ escaped = {}
    /\ deleted = {}

Init ==
    /\ InitView
    /\ debt = NullDebt
    /\ debtView = Unrendered

\* the page is shown and the script is not blocked in confirm()
Running == location = "/customers" /\ pc.at = "idle"

\* handleDelete is not between the return of confirm() and its own return
\* (that stretch runs without yielding, nothing else happens meanwhile)
NotInHandler == pc.at # "answered"

(* ---------------------------------------------------------------------- *)
(* Search and list fetching                                                *)
(* ---------------------------------------------------------------------- *)
\* onChange={(e) => setSearch(e.target.value)}
SetSearch(text, refetch) ==
    /\ Running
    /\ text # search
    /\ search' = text
    /\ cache' = [cache EXCEPT ![text] = Observe(cache[text], refetch)]
    /\ UNCHANGED <<store, pc, mutation, requests, nextId, toasts, toastCalls, timers,
                   location, escaped, deleted, debtVars>>

\* the store answers a list request, or the request fails
ServerList(k, ok) ==
    /\ NotInHandler
    /\ cache[k].fetch = "sent"
    /\ cache' = [cache EXCEPT ![k].fetch = "replied",
                              ![k].reply = IF ok
                                           THEN [ok |-> TRUE,
                                                 data |-> StoreList(store, k)]
                                           ELSE NoReply]
    /\ UNCHANGED <<store, search, pc, mutation, requests, nextId, toasts, toastCalls,
                   timers, location, escaped, deleted, debtVars>>

\* the answer of a list request reaches the query cache
FetchSettled(k) ==
    /\ Running
    /\ cache[k].fetch = "replied"
    /\ cache' = [cache EXCEPT ![k] =
                   IF cache[k].reply.ok
                   THEN [cache[k] EXCEPT !.status = "success",
                                         !.hasData = TRUE,
                                         !.data = cache[k].reply.data,
                                         !.invalidated = FALSE,
                                         !.fetch = "idle",
                                         !.reply = NoReply]
                   ELSE [cache[k] EXCEPT !.status = "error",
                                         !.fetch = "idle",
                                         !.reply = NoReply]]
    /\ UNCHANGED <<store, search, pc, mutation, requests, nextId, toasts, toastCalls,
                   timers, location, escaped, deleted, debtVars>>

(* ---------------------------------------------------------------------- *)
(* Delete workflow                                                         *)
(* ---------------------------------------------------------------------- *)
\* onClick={() => handleDelete(customer.id)} up to the confirm() prompt
ClickDelete(id) ==
    /\ Running
    /\ nextId < MaxDeletes
    /\ id \in View.cards
    /\ ~DeleteDisabled(id)
    /\ pc' = [at |-> "confirming", id |-> id,
              name |-> IF id \in customers /\ Name(id) # <<>>
                       THEN Name(id) ELSE <<"this", "customer">>,
              answer |-> FALSE]
    /\ UNCHANGED <<store, search, cache, mutation, requests, nextId, toasts, toastCalls,
                   timers, location, escaped, deleted, debtVars>>

\* the user answers the prompt: confirm() returns true (OK) or false
ConfirmReturns(answer) ==
    /\ location = "/customers"
    /\ pc.at = "confirming"
    /\ pc' = [pc EXCEPT !.at = "answered", !.answer = answer]
    /\ UNCHANGED <<store, search, cache, mutation, requests, nextId, toasts, toastCalls,
                   timers, location, escaped, deleted, debtVars>>

\* handleDelete goes on after confirm(): on true, mutateAsync(id) starts a
\* mutation, which the observer follows, and sends the DELETE request
HandleDeleteResumes ==
    /\ location = "/customers"
    /\ pc.at = "answered"
    /\ pc' = Idle
    /\ LET ids == handleDelete(pc.id, pc.answer) IN
         IF ids = {}
         THEN UNCHANGED <<mutation, requests, nextId>>
         ELSE /\ nextId' = nextId + 1
              /\ requests' = requests \cup
                    {[mid |-> nextId + 1, id |-> i, phase |-> "sent",
                      resp |-> NoResponse] : i \in ids}
              /\ mutation' = [status |-> "pending", mid |-> nextId + 1,
                              error |-> NoError]
    /\ UNCHANGED <<store, search, cache, toasts, toastCalls, timers, location, escaped,
                   deleted, debtVars>>

\* the store handles DELETE /api/customers/{id}
ServerDelete(r, resp) ==
    /\ NotInHandler
    /\ r \in requests
    /\ r.phase = "sent"
    /\ resp \in Responses(r.id, store)
    /\ store' = IF ResponseOk(resp) THEN store \ {r.id} ELSE store
    /\ requests' = (requests \ {r})
                   \cup {[r EXCEPT !.phase = "replied", !.resp = resp]}
    /\ UNCHANGED <<search, cache, pc, mutation, nextId, toasts, toastCalls, timers,
                   location, escaped, deleted, debtVars>>

\* the mutation settles: mutationFn returns or throws, onSuccess/onError
\* run, the observer leaves the pending state, handleDelete resumes
DeleteSettled(r, api, recognised) ==
    /\ Running
    /\ r \in requests
    /\ r.phase = "replied"
    /\ api \in ApiRequest(r.resp)
    /\ LET res == mutationFn(api, recognised)
           eff == IF res.ok THEN onSuccess ELSE onError(res.error)
       IN  /\ deleted' = IF res.ok THEN deleted \cup {r.id} ELSE deleted
           /\ cache' = IF eff.invalidate
                       THEN InvalidateQueries(cache, search)
                       ELSE cache
           /\ toasts' = eff.toasts
           /\ toastCalls' = toastCalls + Len(eff.toasts)
           /\ timers' = timers \cup
                 {[mid |-> r.mid, ms |-> t.ms, href |-> t.href] : t \in eff.timeouts}
           /\ mutation' = IF mutation.mid = r.mid
                          THEN [mutation EXCEPT
                                  !.status = IF res.ok THEN "success" ELSE "error",
                                  !.error = res.error]
                          ELSE mutation
           /\ escaped' = IF res.ok \/ handleDeleteCatches THEN escaped
                         ELSE escaped \cup {r.mid}
    /\ requests' = requests \ {r}
    /\ UNCHANGED <<store, search, pc, nextId, location, debtVars>>

\* setTimeout(() => { window.location.href = "/api/login" }, 500) fires
TimerFires(t) ==
    /\ Running
    /\ t \in timers
    /\ timers' = timers \ {t}
    /\ location' = t.href
    /\ UNCHANGED <<store, search, cache, pc, mutation, requests, nextId,
                   toasts, toastCalls, escaped, deleted, debtVars>>

Next ==
    \/ \E text \in SearchTexts, refetch \in BOOLEAN : SetSearch(text, refetch)
    \/ \E k \in SearchTexts, ok \in BOOLEAN : ServerList(k, ok)
    \/ \E k \in SearchTexts : FetchSettled(k)
    \/ \E id \in Ids : ClickDelete(id)
    \/ \E answer \in BOOLEAN : ConfirmReturns(answer)
    \/ HandleDeleteResumes
    \/ \E r \in requests : \E resp \in Responses(r.id, store) : ServerDelete(r, resp)
    \/ \E r \in requests : \E api \in ApiRequest(r.resp), recognised \in BOOLEAN :
          DeleteSettled(r, api, recognised)
    \/ \E t \in timers : TimerFires(t)

Spec == Init /\ [][Next]_vars

(* ---------------------------------------------------------------------- *)
(* The debt indicator alone: every totalDebt value is rendered             *)
(* ---------------------------------------------------------------------- *)
InitDebt ==
    /\ debt \in DebtInputs
    /\ debtView = Unrendered
    /\ store = {}
    /\ search = <<>>
    /\ cache = [k \in SearchTexts |-> NoEntry]
    /\ pc = Idle
    /\ mutation = NoMutation
    /\ requests = {}
    /\ nextId = 0
    /\ toasts = <<>>
    /\ toastCalls = 0
    /\ timers = {}
    /\ location = "/customers"
    /\ escaped = {}
    /\ deleted = {}

RenderCard ==
    /\ debtView = Unrendered
    /\ debtView' = DebtIndicator(debt)
    /\ UNCHANGED <<debt, viewVars>>

NextDebt == RenderCard

SpecDebt == InitDebt /\ [][NextDebt]_vars

(* ---------------------------------------------------------------------- *)
(* Properties                                                              *)
(* ---------------------------------------------------------------------- *)
\* severity shown by a rendered indicator
Severity(v) ==
    IF ~v.shown THEN "none"
    ELSE IF v.box = "red" /\ v.icon = "red" /\ v.amount = "red" /\ v.overage
    THEN "critical"
    ELSE IF v.box = "yellow" /\ v.icon = "yellow" /\ v.amount = "yellow"
            /\ ~v.overage
    THEN "warning"
    ELSE "mixed"

\* severity the debt rule gives the amount d stands for
RuleSeverity(d) ==
    LET x == parseFloat(d) IN
    IF d.t \in {"null", "undefined"} \/ x.nan THEN "none"
    ELSE IF ~x.neg /\ x.m >= 5000 * Pow10(x.scale) THEN "critical"
    ELSE IF ~x.neg /\ x.m > 0 THEN "warning"
    ELSE "none"

\* C1: for every totalDebt value (number-like text, zero, negative, absent,
\* unparsable) the card shows critical when the amount is >= 5000, warning
\* when it is > 0 and < 5000, and no debt indicator otherwise.
C1_DebtSeverity ==
    debtView # Unrendered => Severity(debtView) = RuleSeverity(debt)

\* the boundary amount 5000, rendered, is critical
C1_Witness ==
    /\ debt = TextDebt(<<"5", "0", "0", "0">>)
    /\ debtView # Unrendered
    /\ Severity(debtView) = "critical"

Settled == nextId - Cardinality(requests)

\* C2: every delete that was issued and has completed, successfully or with
\* any error, produced exactly one notification (toast() was called once by
\* its callback), a delete in flight none, and no failure left handleDelete.
C2_OneNotificationPerDelete ==
    /\ toastCalls = Settled
    /\ Settled > 0 => Len(toasts) = 1
    /\ escaped = {}

\* an unauthorized failure has completed after an earlier delete
C2_Witness ==
    /\ mutation.status = "error"
    /\ isUnauthorizedError(mutation.error)
    /\ Settled = 2
    /\ toastCalls = 2

\* C3: a failure that is not unauthorized and whose text contains
\* "not found" shows the customer-not-found message, never the generic or
\* the database-error one, also when the text has the "Failed to delete
\* customer" shape.
C3_NotFoundMessage ==
    (/\ mutation.status = "error"
     /\ ~isUnauthorizedError(mutation.error)
     /\ Includes(mutation.error.message, <<"not", "found">>))
    => toasts = <<"notFound">>

\* a not-found failure whose text has the generic shape as well
C3_Witness ==
    /\ mutation.status = "error"
    /\ ~isUnauthorizedError(mutation.error)
    /\ Includes(mutation.error.message, <<"not", "found">>)
    /\ Includes(mutation.error.message, <<"Failed", "to", "delete", "customer">>)
    /\ toasts = <<"notFound">>

\* the step in which a delete mutation settles as a success / as a failure
SuccessStep == mutation.status = "pending" /\ mutation'.status = "success"
FailureStep == mutation.status = "pending" /\ mutation'.status = "error"

C5_UnauthorizedThenRedirect ==
    /\ []((mutation.status = "error" /\ isUnauthorizedError(mutation.error))
          => /\ toasts = <<"unauthorized">>
             /\ (\E t \in timers : t.mid = mutation.mid)
                \/ location = "/api/login")
    /\ [](\A t \in timers : t.ms = 500 /\ t.href = "/api/login")
    /\ [][/\ \A t \in timers' \ timers :
                /\ t.mid = mutation'.mid
                /\ FailureStep
                /\ isUnauthorizedError(mutation'.error)
                /\ toasts' = <<"unauthorized">>
                /\ location' = location
          /\ location' # location =>
                /\ location' = "/api/login"
                /\ \E t \in timers : t.href = location']_vars

\* the browser was redirected after the unauthorized notification
C5_Witness ==
    /\ location = "/api/login"
    /\ mutation.status = "error"
    /\ isUnauthorizedError(mutation.error)
    /\ toasts = <<"unauthorized">>

\* number of the three renderings (skeletons, empty card, cards) drawn
Renderings(v) ==
    (IF v.skeletons THEN 1 ELSE 0) + (IF v.empty THEN 1 ELSE 0)
    + (IF v.cards # {} THEN 1 ELSE 0)

\* C6: when the list is not loading and the store returned no record the
\* empty card with its create action is drawn, with the "no match" text
\* exactly when the search text is non-empty and the "no customers yet"
\* text exactly when it is empty; exactly one of the loading, empty and
\* populated renderings is drawn in every state.
C6_ListRenderings ==
    /\ (~isLoading /\ Entry.status = "success" /\ Entry.data = {})
       => View.empty /\ View.create
    /\ View.empty =>
          /\ View.message = "noMatch" <=> search # <<>>
          /\ View.message = "noCustomersYet" <=> search = <<>>
    /\ ~View.empty => View.message = "none"
    /\ Renderings(View) = 1

\* a non-empty store answered no record for a non-empty search text
C6_Witness ==
    /\ store # {}
    /\ search # <<>>
    /\ Entry.status = "success"
    /\ View.empty /\ View.message = "noMatch"

\* C7: a DELETE request is sent only by handleDelete after confirm()
\* returned true, for the record of that prompt; when confirm() returned
\* false handleDelete returns with no request sent, no notification, no
\* invalidation and the list as it was.
C7_ConfirmBeforeDelete ==
    [][/\ (pc.at = "answered" /\ ~pc.answer /\ pc' # pc)
          => /\ pc' = Idle
             /\ UNCHANGED <<store, search, cache, mutation, requests, nextId,
                            toasts, toastCalls, timers, location, deleted>>
       /\ \A r \in requests' :
             r.mid > nextId
             => /\ pc.at = "answered" /\ pc.answer
                /\ r.id = pc.id
                /\ r.phase = "sent"]_vars

\* the user cancelled the prompt of a displayed record
C7_Witness ==
    /\ pc.at = "answered"
    /\ ~pc.answer
    /\ pc.id \in View.cards

\* C8: when a delete fails, whatever the failure, the mutation is no longer
\* pending, no request of it is left, every delete button is enabled, and
\* the cache (so the displayed list) and the store are as before.
C8_FailureLeavesList ==
    [][FailureStep =>
          /\ \A r \in requests' : r.mid # mutation.mid
          /\ \A id \in Ids : ~DeleteDisabled(id)'
          /\ pc' = Idle
          /\ cache' = cache
          /\ store' = store
          /\ escaped' = escaped]_vars

\* a delete failed and its record is still displayed
C8_Witness ==
    /\ mutation.status = "error"
    /\ requests = {}
    /\ Entry.fetch = "idle"
    /\ \E id \in View.cards : id \notin store

\* C9: while a delete request for a record is in flight the delete button
\* of that record, if drawn, is disabled and shows the spinner, no prompt
\* for the record is open and no second request for it is in flight.
C9_NoDuplicateSubmission ==
    \A r \in requests :
        /\ r.id \in View.cards => DeleteDisabled(r.id) /\ DeleteBusy(r.id)
        /\ pc.at # "idle" => pc.id # r.id
        /\ \A q \in requests : q.id = r.id => q = r

\* a delete is in flight for a record that is displayed
C9_Witness ==
    \E r \in requests : r.id \in View.cards /\ DeleteDisabled(r.id)

\* C10 as stated: the disablement is per button, the buttons of the other
\* records stay enabled while a delete is in flight.
C10_PerButtonOnly ==
    \A r \in requests : \A id \in View.cards : id # r.id => ~DeleteDisabled(id)

\* C10 as amended: while a delete is pending the delete button of every
\* displayed record is disabled, so at most one delete request is in flight.
C10_OneDeleteInFlight ==
    /\ Cardinality(requests) <= 1
    /\ requests # {} => \A id \in View.cards : DeleteDisabled(id)

\* a delete is in flight and the button of another displayed record is
\* disabled
C10_Witness ==
    \E r \in requests : \E id \in View.cards : id # r.id /\ DeleteDisabled(id)

====
